---- MODULE Spec2Model ----
(***************************************************************************)
(* The bounded concurrent task executor of mdfm, package                   *)
(* internal/concurrent: RunAll (batch, order preserving) and RunAllStream  *)
(* (completion order, over a buffered channel), their weighted semaphore,  *)
(* their WaitGroup and the package-level options they resolve.             *)
(*                                                                         *)
(* One call is in progress at a time; calls follow each other, so that     *)
(* the package-level defaultOpts is carried from one call into the next.   *)
(* T is int (zero value 0), M is string (zero value ""), an error is the   *)
(* sequence of the pieces of its message and the nil error is <<>>.        *)
(***************************************************************************)
EXTENDS Integers, Sequences, FiniteSets

VARIABLES
    defaultOpts,   \* options.go: the package-level *concurrency
    mode,          \* "none" | "batch" (RunAll) | "stream" (RunAllStream)
    tasks,         \* the tasks argument of the call in progress
    options,       \* the options argument, until setOpts has consumed it
    pc,            \* position of the calling goroutine inside RunAll/RunAllStream
    next,          \* the index the spawn loop reaches next
    ctx,           \* the context handed to sem.Acquire
    sem,           \* semaphore.Weighted: size, cur, FIFO waiters
    wg,            \* sync.WaitGroup counter
    results,       \* RunAll: the results slice (the slice that is returned)
    resultChan,    \* RunAllStream: the buffered channel
    wpc,           \* position of each worker goroutine
    closer,        \* position of the goroutine that closes resultChan
    received,      \* what the consumer of the channel has received so far
    consumerDone,  \* the consumer has seen the channel closed and drained
    runCount,      \* history: how many times task.Run was entered, per task
    order,         \* history: the task indices in the order of publication
    glob,          \* the call of Glob/GlobStream in progress: its arguments, its error
    cli,           \* the CLI's Run in progress: its loop, its output, its result
    calls,         \* calls made concurrently: each one's position, options and gate
    lib            \* a call of one of the internal packages' functions: its
                   \* argument, what the caller holds of its result

vars == <<lib, calls, glob, cli, defaultOpts, mode, tasks, options, pc, next, ctx, sem, wg, results,
          resultChan, wpc, closer, received, consumerDone, runCount, order>>

----------------------------------------------------------------------------
\* Bounds of the model.

\* longest task sequence handed to one call
MaxTasks == 2

\* largest ceiling passed to WithMaxConcurrency
MaxCeil == 2

----------------------------------------------------------------------------
\* Data: errors, Run behaviours, tasks, outcomes.

defaultMaxConcurrency == 10

NilErr == <<>>

zero == 0

zeroMetadata == ""

\* no panic in flight: what recover() returns then
NilRec == "<nil>"

\* errors.New(msg)
ErrorsNew(msg) == <<msg>>

\* fmt.Errorf("panic: %v", rec)
PanicError(rec) == <<"panic: ", rec>>

\* fmt.Errorf("semaphore acquire failed: %w", err)
AcquireError(err) == <<"semaphore acquire failed: ">> \o err

\* ctx.Err() of a context that is done
ctxErr == <<"context canceled">>

\* A Run that returns (v, err).
Returns(v, err) ==
    [panics |-> FALSE, blocks |-> FALSE, v |-> v, err |-> err, rec |-> NilRec]

\* A Run that panics with rec.
Panics(rec) ==
    [panics |-> TRUE, blocks |-> FALSE, v |-> zero, err |-> NilErr, rec |-> rec]

\* A Run that never returns.
Blocks ==
    [panics |-> FALSE, blocks |-> TRUE, v |-> zero, err |-> NilErr, rec |-> NilRec]

\* The tasks a caller hands in, after the package's tests: one that succeeds,
\* one that fails with "boom" (its Run returns a value alongside the error, as
\* a Run may) and one that panics.
TaskPool ==
    { [Metadata |-> "task-1",     Run |-> Returns(1, NilErr)],
      [Metadata |-> "task-2",     Run |-> Returns(7, ErrorsNew("boom"))],
      [Metadata |-> "panic-task", Run |-> Panics("kaboom")] }

TaskSeqs == UNION { [1..n -> TaskPool] : n \in 0..MaxTasks }

\* The options argument: nothing, or one WithMaxConcurrency(n).
OptionSeqs == {<<>>} \cup { <<n>> : n \in 0..MaxCeil }

taskResult(v, err) == [Value |-> v, Err |-> err]

TaskExecution(m, r) == [Metadata |-> m, Result |-> r]

zeroTaskExecution == TaskExecution(zeroMetadata, taskResult(zero, NilErr))

N == Len(tasks)

Workers == 1..N

----------------------------------------------------------------------------
\* options.go

\* WithMaxConcurrency(n) applied to the concurrency r
WithMaxConcurrency(n, r) == [r EXCEPT !.maxConcurrency = n]

\* setOpts: opts := defaultOpts is a pointer copy, so every option is applied
\* to the package-level value itself; the result is that same value.
RECURSIVE setOpts(_, _)
setOpts(opts, os) ==
    IF os = <<>> THEN opts
    ELSE setOpts(WithMaxConcurrency(Head(os), opts), Tail(os))

----------------------------------------------------------------------------
\* golang.org/x/sync/semaphore as the executor uses it (weight 1 throughout).

NewWeighted(n) == [size |-> n, cur |-> 0, waiters |-> <<>>]

\* Acquire's first test: the context is already done
AcquireFailsAfterFailure(c) ==
    c.done \/ \E k \in 1..Len(order) :
                 tasks[order[k]].Run.panics \/ tasks[order[k]].Run.err # NilErr

AcquireFails(c) == c.done

\* Acquire's fast path: a free permit and nobody queued
CanAcquireOpen(s) == TRUE

CanAcquire(s) == s.size - s.cur >= 1 /\ s.waiters = <<>>

\* notifyWaiters: hand free permits to the queue's head, in order
RECURSIVE notifyWaiters(_)
notifyWaiters(s) ==
    IF s.waiters = <<>> \/ s.size - s.cur < 1 THEN s
    ELSE notifyWaiters([s EXCEPT !.cur = @ + 1, !.waiters = Tail(@)])

\* sem.Release(2): two permits are given back for one acquired
ReleaseTwice(s) == notifyWaiters([s EXCEPT !.cur = @ - 2])

ReleaseKeepsWaiters(s) == [s EXCEPT !.cur = @ - 1]

\* Release(1)
Release(s) == notifyWaiters([s EXCEPT !.cur = @ - 1])

\* the waiters a Release has woken: those no longer queued
Woken(before, after) ==
    { before.waiters[k] : k \in 1..(Len(before.waiters) - Len(after.waiters)) }

----------------------------------------------------------------------------
\* The closure of one worker goroutine.

\* go func(i, task){...}(i, task): worker w is handed index w and tasks[w]
TaskOfLast(w) == N

TaskOf(w) == w

\* The position of the results slice that the worker of task i writes.
ResultIndexFirst(i) == 1

ResultIndex(i) == i

\* recover() in the deferred function: the panic value, or nil without a panic
recoverOutsideDefer(run) == NilRec

recover(run) == IF run.panics THEN run.rec ELSE NilRec

\* results[i] = TaskExecution{task.Metadata, taskResult{v, err}} after Run returned
ReturnedOutcomeNoValue(task) ==
    TaskExecution(task.Metadata, taskResult(zero, task.Run.err))

ReturnedOutcome(task) ==
    TaskExecution(task.Metadata, taskResult(task.Run.v, task.Run.err))

\* the outcome written by the deferred recover
PanicOutcome(task, rec) ==
    TaskExecution(task.Metadata, taskResult(zero, PanicError(rec)))

\* the outcome of a failed sem.Acquire without the wrapping of the error
AcquireFailedOutcomeBare(task, err) ==
    TaskExecution(task.Metadata, taskResult(zero, err))

\* the outcome written when sem.Acquire returned an error
AcquireFailedOutcome(task, err) ==
    TaskExecution(task.Metadata, taskResult(zero, AcquireError(err)))

\* resultChan <- item: the item joins the buffer behind the items already sent
ChanSendInInputOrder(buf, item) ==
    LET before == SelectSeq(buf, LAMBDA x : x.src <= item.src)
        after == SelectSeq(buf, LAMBDA x : x.src > item.src)
    IN  before \o <<item>> \o after

ChanSend(buf, item) == Append(buf, item)

\* Which function calls wg.Wait() itself before it returns: RunAll does,
\* RunAllStream leaves the wait to the closing goroutine.
CallerWaitsAlways(m) == TRUE

CallerWaits(m) == m = "batch"

\* make([]TaskExecution[T, M], len(tasks)): n zero outcomes
MakeResultsOneMore(n) == [i \in 1..(n + 1) |-> zeroTaskExecution]

MakeResults(n) == [i \in 1..n |-> zeroTaskExecution]

\* make(chan TaskExecution[T, M], len(tasks)): the capacity of the channel
ChanCapOneLess(n) == n - 1

ChanCap(n) == n

\* the deferred sem.Release(1) runs as soon as Run is entered
ReleaseReadyEarly(p) == p \in {"running", "published"}

\* the deferred sem.Release(1) runs once the outcome is published: the deferred
\* calls run last registered first (recover, then Release, then wg.Done)
ReleaseReady(p) == p = "published"

\* wg.Wait() returns
WaitNoBlock(w) == TRUE

WaitReturns(w) == w = 0

----------------------------------------------------------------------------
\* State after package initialisation: no call in progress.

\* the calls that may be in progress at the same time
Calls == {"A", "B"}

\* a call that has not begun
NoCall == [pc |-> "idle", options |-> <<>>, sem |-> NewWeighted(0)]

\* no call of Glob or GlobStream is in progress
NoGlob ==
    [called |-> FALSE, pattern |-> "",
     ignore |-> [nil |-> TRUE, ignored |-> {}, err |-> NilErr], err |-> NilErr]

\* the CLI's Run is not in progress
NoCLI ==
    [active |-> FALSE, k |-> 1, hasErrors |-> FALSE, wtrErr |-> NilErr,
     stdout |-> <<>>, stderr |-> <<>>, returned |-> FALSE, err |-> NilErr]

NoChan == [buf |-> <<>>, cap |-> 0, closed |-> FALSE]

Background == [done |-> FALSE]

\* No function of the internal packages is being called.
NoLib == [fn |-> "none", pc |-> "none", arg |-> <<>>, out |-> <<>>, first |-> <<>>,
          second |-> <<>>]

Init ==
    /\ defaultOpts = [maxConcurrency |-> defaultMaxConcurrency]
    /\ mode = "none"
    /\ tasks = <<>>
    /\ options = <<>>
    /\ pc = "idle"
    /\ next = 1
    /\ ctx = Background
    /\ sem = NewWeighted(0)
    /\ wg = 0
    /\ results = <<>>
    /\ resultChan = NoChan
    /\ wpc = <<>>
    /\ closer = "none"
    /\ received = <<>>
    /\ consumerDone = FALSE
    /\ runCount = <<>>
    /\ order = <<>>
    /\ glob = NoGlob
    /\ cli = NoCLI
    /\ calls = [c \in Calls |-> NoCall]
    /\ lib = NoLib

----------------------------------------------------------------------------
\* The calling goroutine.

\* A call is entered with its arguments.
Enter(m, ts, os) ==
    /\ pc = "idle"
    /\ mode' = m
    /\ tasks' = ts
    /\ options' = os
    /\ wpc' = [i \in 1..Len(ts) |-> "none"]
    /\ runCount' = [i \in 1..Len(ts) |-> 0]
    /\ pc' = "setOpts"
    /\ UNCHANGED <<lib, calls, defaultOpts, next, ctx, sem, wg, results, resultChan,
                   closer, received, consumerDone, order>>

RunAll ==
    /\ \E ts \in TaskSeqs, os \in OptionSeqs : Enter("batch", ts, os)
    /\ UNCHANGED <<glob, cli>>

RunAllStream ==
    /\ \E ts \in TaskSeqs, os \in OptionSeqs : Enter("stream", ts, os)
    /\ UNCHANGED <<glob, cli>>

\* opts := setOpts(options...): the options are applied to the package-level
\* value, which opts aliases. options is not read again after this statement.
SetOpts ==
    /\ pc = "setOpts"
    /\ defaultOpts' = setOpts(defaultOpts, options)
    /\ options' = <<>>
    /\ pc' = "make"
    /\ UNCHANGED <<lib, calls, glob, cli, mode, tasks, next, ctx, sem, wg, results, resultChan, wpc,
                   closer, received, consumerDone, runCount, order>>

\* ctx, sem, the WaitGroup and the results slice or the channel are created.
\* opts aliases defaultOpts, so the ceiling is read from the package-level value.
Make ==
    /\ pc = "make"
    /\ ctx' = Background
    /\ sem' = NewWeighted(defaultOpts.maxConcurrency)
    /\ wg' = 0
    /\ IF mode = "batch"
       THEN /\ results' = MakeResults(N)
            /\ UNCHANGED resultChan
       ELSE /\ resultChan' = [buf |-> <<>>, cap |-> ChanCap(N), closed |-> FALSE]
            /\ UNCHANGED results
    /\ next' = 1
    /\ pc' = "spawn"
    /\ UNCHANGED <<lib, calls, glob, cli, defaultOpts, mode, tasks, options, wpc, closer, received,
                   consumerDone, runCount, order>>

\* One turn of the loop over tasks: wg.Add(1); go func(...){...}(...)
Spawn ==
    /\ pc = "spawn"
    /\ next <= N
    /\ wg' = wg + 1
    /\ wpc' = [wpc EXCEPT ![next] = "spawned"]
    /\ next' = next + 1
    /\ UNCHANGED <<lib, calls, glob, cli, defaultOpts, mode, tasks, options, pc, ctx, sem, results,
                   resultChan, closer, received, consumerDone, runCount, order>>

\* RunAll after the loop: wg.Wait(); return results
WaitAndReturn ==
    /\ pc = "spawn"
    /\ next > N
    /\ mode = "batch"
    /\ CallerWaits(mode) => WaitReturns(wg)
    /\ pc' = "returned"
    /\ UNCHANGED <<lib, calls, glob, cli, defaultOpts, mode, tasks, options, next, ctx, sem, wg,
                   results, resultChan, wpc, closer, received, consumerDone,
                   runCount, order>>

\* RunAllStream after the loop: start the closing goroutine; return resultChan
StartCloserAndReturn ==
    /\ pc = "spawn"
    /\ next > N
    /\ mode = "stream"
    /\ CallerWaits(mode) => WaitReturns(wg)
    /\ closer' = "wait"
    /\ pc' = "returned"
    /\ UNCHANGED <<lib, calls, glob, cli, defaultOpts, mode, tasks, options, next, ctx, sem, wg,
                   results, resultChan, wpc, received, consumerDone, runCount,
                   order>>

\* The caller is through with the call (a stream's consumer has drained the
\* channel); the next call may begin. Only defaultOpts outlives the call.
CallEnds ==
    /\ pc = "returned"
    /\ mode = "stream" => consumerDone
    /\ mode' = "none"
    /\ tasks' = <<>>
    /\ pc' = "idle"
    /\ next' = 1
    /\ ctx' = Background
    /\ sem' = NewWeighted(0)
    /\ wg' = 0
    /\ results' = <<>>
    /\ resultChan' = NoChan
    /\ wpc' = <<>>
    /\ closer' = "none"
    /\ received' = <<>>
    /\ consumerDone' = FALSE
    /\ runCount' = <<>>
    /\ order' = <<>>
    /\ cli.active => cli.returned
    /\ glob' = NoGlob
    /\ cli' = NoCLI
    /\ UNCHANGED <<lib, calls, defaultOpts, options>>

----------------------------------------------------------------------------
\* The worker goroutine of task TaskOf(w).

\* The worker publishes its outcome: RunAll writes results[i], RunAllStream
\* sends on resultChan (a send waits while the buffer is full). A channel item
\* carries src, the index of the task it belongs to, as history.
Publish(i, outcome) ==
    /\ order' = Append(order, i)
    /\ IF mode = "batch"
       THEN /\ results' = [results EXCEPT ![ResultIndex(i)] = outcome]
            /\ UNCHANGED resultChan
       ELSE /\ Len(resultChan.buf) < resultChan.cap
            /\ resultChan' = [resultChan EXCEPT
                                 !.buf = ChanSend(@, [src |-> i, exec |-> outcome])]
            /\ UNCHANGED results

\* sem.Acquire(ctx, 1): fails when ctx is done; takes a free permit when nobody
\* is queued; waits for ever when the semaphore has no permit at all; queues
\* otherwise. On failure the worker publishes the admission failure and returns.
Acquire(w) ==
    /\ wpc[w] = "spawned"
    /\ IF AcquireFails(ctx)
       THEN /\ Publish(TaskOf(w), AcquireFailedOutcome(tasks[TaskOf(w)], ctxErr))
            /\ wpc' = [wpc EXCEPT ![w] = "exiting"]
            /\ UNCHANGED sem
       ELSE /\ UNCHANGED <<results, resultChan, order>>
            /\ IF CanAcquire(sem)
               THEN /\ sem' = [sem EXCEPT !.cur = @ + 1]
                    /\ wpc' = [wpc EXCEPT ![w] = "acquired"]
               ELSE IF 1 > sem.size
                    THEN /\ wpc' = [wpc EXCEPT ![w] = "doomed"]
                         /\ UNCHANGED sem
                    ELSE /\ sem' = [sem EXCEPT !.waiters = Append(@, w)]
                         /\ wpc' = [wpc EXCEPT ![w] = "waiting"]
    /\ UNCHANGED <<lib, calls, glob, cli, defaultOpts, mode, tasks, options, pc, next, ctx, wg,
                   closer, received, consumerDone, runCount>>

\* A queued Acquire wakes up with its permit. It returns nil, unless the
\* context is done by now: then it gives the permit back and returns the
\* context's error, and the worker publishes the admission failure and returns.
Wake(w) ==
    /\ wpc[w] = "granted"
    /\ IF AcquireFails(ctx)
       THEN /\ sem' = Release(sem)
            /\ Publish(TaskOf(w), AcquireFailedOutcome(tasks[TaskOf(w)], ctxErr))
            /\ wpc' = [v \in Workers |->
                         IF v = w THEN "exiting"
                         ELSE IF v \in Woken(sem, sem') THEN "granted"
                         ELSE wpc[v]]
       ELSE /\ wpc' = [wpc EXCEPT ![w] = "acquired"]
            /\ UNCHANGED <<sem, results, resultChan, order>>
    /\ UNCHANGED <<lib, calls, glob, cli, defaultOpts, mode, tasks, options, pc, next, ctx, wg,
                   closer, received, consumerDone, runCount>>

\* task.Run() is entered.
RunEnter(w) ==
    /\ wpc[w] = "acquired"
    /\ wpc' = [wpc EXCEPT ![w] = "running"]
    /\ runCount' = [runCount EXCEPT ![TaskOf(w)] = @ + 1]
    /\ UNCHANGED <<lib, calls, glob, cli, defaultOpts, mode, tasks, options, pc, next, ctx, sem, wg,
                   results, resultChan, closer, received, consumerDone, order>>

\* task.Run() returns and its outcome is published, or it panics and the
\* deferred function recovers and publishes the panic outcome. A panic that
\* recover() does not catch kills the process with all its goroutines.
RunFinish(w) ==
    /\ wpc[w] = "running"
    /\ ~tasks[TaskOf(w)].Run.blocks
    /\ LET i == TaskOf(w)
           task == tasks[i]
           rec == recover(task.Run)
       IN  IF ~task.Run.panics
           THEN /\ Publish(i, ReturnedOutcome(task))
                /\ wpc' = [wpc EXCEPT ![w] = "published"]
                /\ UNCHANGED <<pc, closer>>
           ELSE IF rec # NilRec
                THEN /\ Publish(i, PanicOutcome(task, rec))
                     /\ wpc' = [wpc EXCEPT ![w] = "published"]
                     /\ UNCHANGED <<pc, closer>>
                ELSE /\ pc' = "crashed"
                     /\ wpc' = [v \in Workers |-> "dead"]
                     /\ closer' = "dead"
                     /\ UNCHANGED <<results, resultChan, order>>
    /\ UNCHANGED <<lib, calls, glob, cli, defaultOpts, mode, tasks, options, next, ctx, sem, wg,
                   received, consumerDone, runCount>>

\* The deferred sem.Release(1): the permit goes back and the queue's head is
\* granted it (its ready channel is closed: it holds the permit from now on).
ReleaseSlot(w) ==
    /\ ReleaseReady(wpc[w])
    /\ sem' = Release(sem)
    /\ wpc' = [v \in Workers |->
                 IF v = w THEN "exiting"
                 ELSE IF v \in Woken(sem, sem') THEN "granted"
                 ELSE wpc[v]]
    /\ UNCHANGED <<lib, calls, glob, cli, defaultOpts, mode, tasks, options, pc, next, ctx, wg,
                   results, resultChan, closer, received, consumerDone,
                   runCount, order>>

\* The deferred wg.Done().
Done(w) ==
    /\ wpc[w] = "exiting"
    /\ wg' = wg - 1
    /\ wpc' = [wpc EXCEPT ![w] = "done"]
    /\ UNCHANGED <<lib, calls, glob, cli, defaultOpts, mode, tasks, options, pc, next, ctx, sem,
                   results, resultChan, closer, received, consumerDone,
                   runCount, order>>

----------------------------------------------------------------------------
\* RunAllStream: the closing goroutine and the consumer of the channel.

\* wg.Wait(); close(resultChan)
Close ==
    /\ closer = "wait"
    /\ WaitReturns(wg)
    /\ resultChan' = [resultChan EXCEPT !.closed = TRUE]
    /\ closer' = "done"
    /\ UNCHANGED <<lib, calls, glob, cli, defaultOpts, mode, tasks, options, pc, next, ctx, sem, wg,
                   results, wpc, received, consumerDone, runCount, order>>

\* for result := range resultChan: one item is received
Receive ==
    /\ mode = "stream"
    /\ pc = "returned"
    /\ resultChan.buf # <<>>
    /\ received' = Append(received, Head(resultChan.buf))
    /\ resultChan' = [resultChan EXCEPT !.buf = Tail(@)]
    /\ UNCHANGED <<lib, calls, glob, cli, defaultOpts, mode, tasks, options, pc, next, ctx, sem, wg,
                   results, wpc, closer, consumerDone, runCount, order>>

\* the range loop ends: the channel is closed and empty
RangeEnds ==
    /\ mode = "stream"
    /\ pc = "returned"
    /\ ~consumerDone
    /\ resultChan.buf = <<>>
    /\ resultChan.closed
    /\ consumerDone' = TRUE
    /\ UNCHANGED <<lib, calls, glob, cli, defaultOpts, mode, tasks, options, pc, next, ctx, sem, wg,
                   results, resultChan, wpc, closer, received, runCount, order>>

----------------------------------------------------------------------------
Caller ==
    \/ RunAll
    \/ RunAllStream
    \/ SetOpts
    \/ Make
    \/ Spawn
    \/ WaitAndReturn
    \/ StartCloserAndReturn
    \/ CallEnds

Worker(w) ==
    \/ Acquire(w)
    \/ Wake(w)
    \/ RunEnter(w)
    \/ RunFinish(w)
    \/ ReleaseSlot(w)
    \/ Done(w)

Next ==
    \/ Caller
    \/ \E w \in Workers : Acquire(w)
    \/ \E w \in Workers : Wake(w)
    \/ \E w \in Workers : RunEnter(w)
    \/ \E w \in Workers : RunFinish(w)
    \/ \E w \in Workers : ReleaseSlot(w)
    \/ \E w \in Workers : Done(w)
    \/ Close
    \/ Receive
    \/ RangeEnds

Spec == Init /\ [][Next]_vars

\* Fair scheduling: a goroutine that can take a step eventually takes it, and
\* every Run that was entered terminates. Nothing obliges a caller to begin a
\* call or to begin another one.
ExecutorFairness ==
    /\ WF_vars(SetOpts)
    /\ WF_vars(Make)
    /\ WF_vars(Spawn)
    /\ WF_vars(WaitAndReturn)
    /\ WF_vars(StartCloserAndReturn)
    /\ \A w \in 1..MaxTasks : WF_vars(w \in Workers /\ Worker(w))
    /\ WF_vars(Close)

\* ... and the consumer of a stream keeps reading until the channel is closed.
Fairness ==
    /\ ExecutorFairness
    /\ WF_vars(Receive)
    /\ WF_vars(RangeEnds)

FairSpec == Init /\ [][Next]_vars /\ Fairness

\* The consumer of a stream may stop reading at any moment, or never read.
AbandonSpec == Init /\ [][Next]_vars /\ ExecutorFairness

----------------------------------------------------------------------------
\* The admission primitive is invalidated: the context handed to sem.Acquire
\* becomes done. RunAll and RunAllStream hand it context.Background(), which
\* never does, so nothing of this part happens under Spec; it shows what the
\* workers' handling of a failed Acquire does when Acquire fails.

Invalidate ==
    /\ pc \in {"spawn", "returned"}
    /\ ~ctx.done
    /\ ctx' = [done |-> TRUE]
    /\ UNCHANGED <<lib, calls, glob, cli, defaultOpts, mode, tasks, options, pc, next, sem, wg,
                   results, resultChan, wpc, closer, received, consumerDone, runCount,
                   order>>

\* A blocked Acquire sees the context done: a queued one leaves the queue (and
\* lets the queue move on if it was its head and a permit is free), one that
\* waited on a semaphore without permits just returns; both return the
\* context's error, and the worker publishes the admission failure and returns.
AcquireCancelled(w) ==
    /\ wpc[w] \in {"waiting", "doomed"}
    /\ AcquireFails(ctx)
    /\ LET isFront == sem.waiters # <<>> /\ Head(sem.waiters) = w
           left == [sem EXCEPT !.waiters = SelectSeq(@, LAMBDA x : x # w)]
       IN  sem' = IF wpc[w] = "doomed" THEN sem
                  ELSE IF isFront /\ left.size > left.cur THEN notifyWaiters(left)
                  ELSE left
    /\ Publish(TaskOf(w), AcquireFailedOutcome(tasks[TaskOf(w)], ctxErr))
    /\ wpc' = [v \in Workers |->
                 IF v = w THEN "exiting"
                 ELSE IF /\ wpc[v] = "waiting"
                         /\ \A k \in 1..Len(sem'.waiters) : sem'.waiters[k] # v
                      THEN "granted"
                 ELSE wpc[v]]
    /\ UNCHANGED <<lib, calls, glob, cli, defaultOpts, mode, tasks, options, pc, next, ctx, wg,
                   closer, received, consumerDone, runCount>>

\* The task sequences of this part: distinct tasks of the pool, in one order
\* (which task sits at which index makes no difference to admission).
TaskOrder == <<"task-1", "task-2", "panic-task">>

Rank(t) == CHOOSE r \in 1..Len(TaskOrder) : TaskOrder[r] = t.Metadata

DistinctTaskSeqs ==
    { ts \in TaskSeqs :
        \A i, j \in 1..Len(ts) : i < j => Rank(ts[i]) < Rank(ts[j]) }

RunAllDistinct ==
    /\ \E ts \in DistinctTaskSeqs, os \in OptionSeqs : Enter("batch", ts, os)
    /\ UNCHANGED <<glob, cli>>

RunAllStreamDistinct ==
    /\ \E ts \in DistinctTaskSeqs, os \in OptionSeqs : Enter("stream", ts, os)
    /\ UNCHANGED <<glob, cli>>

\* One call of RunAll or RunAllStream, during which the context may become done.
NextAdmission ==
    \/ RunAllDistinct
    \/ RunAllStreamDistinct
    \/ SetOpts
    \/ Make
    \/ Spawn
    \/ WaitAndReturn
    \/ StartCloserAndReturn
    \/ \E w \in Workers : Acquire(w)
    \/ \E w \in Workers : Wake(w)
    \/ \E w \in Workers : RunEnter(w)
    \/ \E w \in Workers : RunFinish(w)
    \/ \E w \in Workers : ReleaseSlot(w)
    \/ \E w \in Workers : Done(w)
    \/ Close
    \/ Receive
    \/ RangeEnds
    \/ Invalidate
    \/ \E w \in Workers : AcquireCancelled(w)

AdmissionSpec ==
    /\ Init
    /\ [][NextAdmission]_vars
    /\ Fairness
    /\ \A w \in 1..MaxTasks : WF_vars(w \in Workers /\ AcquireCancelled(w))

----------------------------------------------------------------------------
\* Vocabulary of the properties.

\* RunAll has returned its results slice.
Returned == mode = "batch" /\ pc = "returned"

\* The consumer of RunAllStream's channel has seen it closed.
Drained == mode = "stream" /\ consumerDone

\* The outcomes published so far, in order of publication, each with the index
\* of the task whose worker published it.
Published ==
    IF mode = "batch"
    THEN [k \in 1..Len(order) |-> [src |-> order[k], exec |-> results[order[k]]]]
    ELSE received \o resultChan.buf

\* The outcomes published for task i.
OutcomesOf(i) == { k \in 1..Len(Published) : Published[k].src = i }

Succeeds(task) == ~task.Run.panics /\ task.Run.err = NilErr

Fails(task) == ~Succeeds(task)

Running == { w \in Workers : wpc[w] = "running" }

Finished(w) == wpc[w] \in {"published", "exiting", "done"}

----------------------------------------------------------------------------
\* mdfm.go: Glob and GlobStream. A path stands for MarkdownDocumentMetadata{Path:
\* path}, a positive number for a non-nil *MarkdownDocument, zero for nil.

readConcurrency == 10

ErrBadPattern == <<"syntax error in pattern">>

ErrGitConfig == <<"cannot resolve git directory">>

ErrNotExist == <<"open: no such file or directory">>

ErrFrontMatter == <<"yaml: unmarshal errors">>

\* The patterns a caller hands in.
Patterns == {"[invalid", "*.md", "[bl]*.md", "l*.md", "**/ok*.md", "none/*.md"}

\* doublestar.FilepathGlob(pattern) in the working directory of the tests'
\* kind: two files with valid front matter (ok.md, and ok2.md in a directory
\* below), one with invalid front matter, and one that is matched but cannot
\* be opened.
FilepathGlob(pattern) ==
    IF pattern = "[invalid" THEN [matched |-> <<>>, err |-> ErrBadPattern]
    ELSE IF pattern = "*.md" THEN [matched |-> <<"bad.md", "ok.md">>, err |-> NilErr]
    ELSE IF pattern = "[bl]*.md" THEN [matched |-> <<"bad.md", "locked.md">>, err |-> NilErr]
    ELSE IF pattern = "l*.md" THEN [matched |-> <<"locked.md">>, err |-> NilErr]
    ELSE IF pattern = "**/ok*.md" THEN [matched |-> <<"ok.md", "sub/ok2.md">>, err |-> NilErr]
    ELSE [matched |-> <<>>, err |-> NilErr]

\* What gitignore.NewFromCWD() may return: an error, nil without an error,
\* or the ignore rules in force.
GitIgnoreResults ==
    {[nil |-> TRUE, ignored |-> {}, err |-> ErrGitConfig],
     [nil |-> TRUE, ignored |-> {}, err |-> NilErr]}
    \cup {[nil |-> FALSE, ignored |-> S, err |-> NilErr] :
             S \in {{}, {"ok.md"}, {"bad.md", "locked.md"}}}

\* an ignore matcher that ignores nothing
IsIgnoredNever(gi, p) == FALSE

\* gi.IsIgnored(p)
IsIgnored(gi, p) == p \in gi.ignored

\* runGlob, but a failure to resolve the ignore rules counts as no rules
runGlobWithoutRules(pattern, gi) ==
    LET g == FilepathGlob(pattern)
    IN  IF g.err # NilErr THEN [matched |-> <<>>, err |-> g.err]
        ELSE IF gi.nil THEN [matched |-> g.matched, err |-> NilErr]
        ELSE [matched |-> SelectSeq(g.matched, LAMBDA q : ~IsIgnored(gi, q)),
              err |-> NilErr]

\* runGlob(pattern), gi being what gitignore.NewFromCWD() returns
runGlob(pattern, gi) ==
    LET g == FilepathGlob(pattern)
    IN  IF g.err # NilErr THEN [matched |-> <<>>, err |-> g.err]
        ELSE IF gi.err # NilErr THEN [matched |-> <<>>, err |-> gi.err]
        ELSE IF gi.nil THEN [matched |-> g.matched, err |-> NilErr]
        ELSE [matched |-> SelectSeq(g.matched, LAMBDA q : ~IsIgnored(gi, q)),
              err |-> NilErr]

\* processMarkdownFile, but a file whose front matter cannot be parsed yields
\* neither a document nor an error
processMarkdownFileLenient(path) ==
    IF path = "locked.md" THEN Returns(zero, ErrNotExist)
    ELSE IF path = "bad.md" THEN Returns(zero, NilErr)
    ELSE IF path = "sub/ok2.md" THEN Returns(2, NilErr)
    ELSE Returns(1, NilErr)

\* processMarkdownFile(path): what the task of a path returns
processMarkdownFile(path) ==
    IF path = "locked.md" THEN Returns(zero, ErrNotExist)
    ELSE IF path = "bad.md" THEN Returns(zero, ErrFrontMatter)
    ELSE IF path = "sub/ok2.md" THEN Returns(2, NilErr)
    ELSE Returns(1, NilErr)

\* the task Glob and GlobStream make of a matched path
GlobTask(path) == [Metadata |-> path, Run |-> processMarkdownFile(path)]

\* Glob (m = "batch") and GlobStream (m = "stream") up to the call of RunAll or
\* RunAllStream, which the executor's actions carry on; a fatal error is
\* returned at once.
GlobCall(m, pattern, gi) ==
    /\ pc = "idle"
    /\ LET r == runGlob(pattern, gi)
       IN  /\ glob' = [called |-> TRUE, pattern |-> pattern, ignore |-> gi,
                       err |-> r.err]
           /\ IF r.err # NilErr
              THEN /\ pc' = "globFailed"
                   /\ UNCHANGED <<lib, calls, defaultOpts, mode, tasks, options, next, ctx,
                                  sem, wg, results, resultChan, wpc, closer,
                                  received, consumerDone, runCount, order>>
              ELSE Enter(m, [i \in 1..Len(r.matched) |-> GlobTask(r.matched[i])],
                         <<readConcurrency>>)

Glob ==
    /\ \E p \in Patterns, gi \in GitIgnoreResults : GlobCall("batch", p, gi)
    /\ UNCHANGED cli

GlobStream ==
    /\ \E p \in Patterns, gi \in GitIgnoreResults : GlobCall("stream", p, gi)
    /\ UNCHANGED cli

\* The caller of a failed Glob or GlobStream is through with the call.
GlobFailedEnds ==
    /\ pc = "globFailed"
    /\ cli.active => cli.returned
    /\ pc' = "idle"
    /\ glob' = NoGlob
    /\ cli' = NoCLI
    /\ UNCHANGED <<lib, calls, defaultOpts, mode, tasks, options, next, ctx, sem, wg,
                   results, resultChan, wpc, closer, received, consumerDone,
                   runCount, order>>

----------------------------------------------------------------------------
\* The command line: CLI.Run.

EPIPE == <<"broken pipe">>

ErrShortWrite == <<"short write">>

ErrUnsupportedType == <<"json: unsupported type">>

\* task.Result.Value.BodyString() on a nil document: Run ends in a panic
NilDereference == <<"panic: invalid memory address or nil pointer dereference">>

\* what printer(payload) may return while the writer is sound
PrinterErrs == {NilErr, ErrUnsupportedType, EPIPE}

\* what wtr.Flush() may return
FlushErrs == {NilErr, EPIPE, ErrShortWrite}

\* fmt.Errorf("error during glob %s: %w", cmd.Pattern, globErr)
GlobError(pattern, globErr) == <<"error during glob ", pattern, ": ">> \o globErr

\* Run begins with mdfm.Glob(cmd.Pattern).
CLIRun ==
    /\ \E p \in Patterns, gi \in GitIgnoreResults : GlobCall("batch", p, gi)
    /\ cli' = [NoCLI EXCEPT !.active = TRUE]

\* Glob returned an error: Run returns it, wrapped.
CLIGlobFailed ==
    /\ cli.active
    /\ ~cli.returned
    /\ pc = "globFailed"
    /\ cli' = [cli EXCEPT !.returned = TRUE,
                          !.err = GlobError(glob.pattern, glob.err)]
    /\ UNCHANGED <<lib, calls, glob, defaultOpts, mode, tasks, options, pc, next, ctx, sem,
                   wg, results, resultChan, wpc, closer, received,
                   consumerDone, runCount, order>>

\* the loop body, but a failed task ends the loop (and Run, with the error)
IterateUntilFailure(c, task, fmtErr, flushErr) ==
    LET path == task.Metadata
    IN  IF task.Result.Err # NilErr
        THEN [c EXCEPT !.hasErrors = TRUE,
                       !.stderr = Append(@, <<"error processing", path>>),
                       !.returned = TRUE,
                       !.err = ErrorsNew("errors occurred during processing markdown files")]
        ELSE IF fmtErr # NilErr \/ flushErr # NilErr
        THEN [c EXCEPT !.k = @ + 1, !.hasErrors = TRUE, !.wtrErr = flushErr,
                       !.stderr = Append(@, <<"error formatting JSON for", path>>)]
        ELSE [c EXCEPT !.k = @ + 1, !.stdout = Append(@, path)]

\* The deferred wtr.Flush() at Run's return: the writer hands back the error it
\* holds, which is reported unless it is a broken pipe.
DeferredFlush(c) ==
    IF c.wtrErr \in {NilErr, EPIPE} THEN c.stderr
    ELSE Append(c.stderr, <<"error flushing output on exit", "">>)

\* the loop body, but a broken pipe at the flush is an error like any other
IterateThroughBrokenPipe(c, task, fmtErr, flushErr) ==
    LET path == task.Metadata
        pErr == IF c.wtrErr # NilErr THEN c.wtrErr ELSE fmtErr
        step == [c EXCEPT !.k = @ + 1]
    IN  IF task.Result.Err # NilErr
        THEN [step EXCEPT !.hasErrors = TRUE,
                          !.stderr = Append(@, <<"error processing", path>>)]
        ELSE IF pErr # NilErr
        THEN [step EXCEPT !.hasErrors = TRUE,
                          !.wtrErr = IF pErr = ErrUnsupportedType THEN @ ELSE pErr,
                          !.stderr = Append(@, <<"error formatting JSON for", path>>)]
        ELSE IF flushErr = NilErr
        THEN [step EXCEPT !.stdout = Append(@, path)]
        ELSE [step EXCEPT !.hasErrors = TRUE,
                          !.wtrErr = flushErr,
                          !.stderr = Append(@, <<"error flushing output for", path>>)]

\* One iteration of the loop over the outcomes, for the outcome task: a failed
\* task is reported and skipped; a record is encoded into the buffered writer
\* (which fails for good once a write has failed) and flushed; a broken pipe at
\* the flush ends Run with nil, any other error is reported.
Iterate(c, task, fmtErr, flushErr) ==
    LET path == task.Metadata
        pErr == IF c.wtrErr # NilErr THEN c.wtrErr ELSE fmtErr
        step == [c EXCEPT !.k = @ + 1]
    IN  IF task.Result.Err # NilErr
        THEN [step EXCEPT !.hasErrors = TRUE,
                          !.stderr = Append(@, <<"error processing", path>>)]
        ELSE IF task.Result.Value = zero
        THEN [c EXCEPT !.returned = TRUE, !.err = NilDereference]
        ELSE IF pErr # NilErr
        THEN [step EXCEPT !.hasErrors = TRUE,
                          !.wtrErr = IF pErr = ErrUnsupportedType THEN @ ELSE pErr,
                          !.stderr = Append(@, <<"error formatting JSON for", path>>)]
        ELSE IF flushErr = NilErr
        THEN [step EXCEPT !.stdout = Append(@, path)]
        ELSE IF flushErr = EPIPE
        THEN [c EXCEPT !.wtrErr = flushErr, !.returned = TRUE, !.err = NilErr]
        ELSE [step EXCEPT !.hasErrors = TRUE,
                          !.wtrErr = flushErr,
                          !.stderr = Append(@, <<"error flushing output for", path>>)]

CLIIterate ==
    /\ cli.active
    /\ ~cli.returned
    /\ Returned
    /\ cli.k <= N
    /\ \E fmtErr \in PrinterErrs, flushErr \in FlushErrs :
          cli' = Iterate(cli, results[cli.k], fmtErr, flushErr)
    /\ UNCHANGED <<lib, calls, glob, defaultOpts, mode, tasks, options, pc, next, ctx, sem,
                   wg, results, resultChan, wpc, closer, received,
                   consumerDone, runCount, order>>

\* The loop is over: Run returns an error if hasErrors, else nil.
CLIReturn ==
    /\ cli.active
    /\ ~cli.returned
    /\ Returned
    /\ cli.k > N
    /\ cli' = [cli EXCEPT !.returned = TRUE,
                          !.err = IF cli.hasErrors
                                  THEN ErrorsNew("errors occurred during processing markdown files")
                                  ELSE NilErr,
                          !.stderr = DeferredFlush(cli)]
    /\ UNCHANGED <<lib, calls, glob, defaultOpts, mode, tasks, options, pc, next, ctx, sem,
                   wg, results, resultChan, wpc, closer, received,
                   consumerDone, runCount, order>>

\* The executor, called directly, through Glob and GlobStream, or by the CLI.
NextApp ==
    \/ Next
    \/ Glob
    \/ GlobStream
    \/ GlobFailedEnds
    \/ CLIRun
    \/ CLIGlobFailed
    \/ CLIIterate
    \/ CLIReturn

AppSpec == Init /\ [][NextApp]_vars

----------------------------------------------------------------------------
\* A call with a task whose Run never returns.

StuckTask == [Metadata |-> "stuck-task", Run |-> Blocks]

StuckOrder == TaskOrder \o <<"stuck-task">>

StuckRank(t) == CHOOSE r \in 1..Len(StuckOrder) : StuckOrder[r] = t.Metadata

\* distinct tasks of the pool and the stuck task, in one order
StuckTaskSeqs ==
    { ts \in UNION { [1..n -> TaskPool \cup {StuckTask}] : n \in 0..MaxTasks } :
        \A i, j \in 1..Len(ts) : i < j => StuckRank(ts[i]) < StuckRank(ts[j]) }

RunAllStuck ==
    /\ \E ts \in StuckTaskSeqs, os \in OptionSeqs : Enter("batch", ts, os)
    /\ UNCHANGED <<glob, cli>>

RunAllStreamStuck ==
    /\ \E ts \in StuckTaskSeqs, os \in OptionSeqs : Enter("stream", ts, os)
    /\ UNCHANGED <<glob, cli>>

NextStuck ==
    \/ RunAllStuck
    \/ RunAllStreamStuck
    \/ SetOpts
    \/ Make
    \/ Spawn
    \/ WaitAndReturn
    \/ StartCloserAndReturn
    \/ \E w \in Workers : Acquire(w)
    \/ \E w \in Workers : Wake(w)
    \/ \E w \in Workers : RunEnter(w)
    \/ \E w \in Workers : RunFinish(w)
    \/ \E w \in Workers : ReleaseSlot(w)
    \/ \E w \in Workers : Done(w)
    \/ Close
    \/ Receive
    \/ RangeEnds

StuckSpec == Init /\ [][NextStuck]_vars /\ Fairness

----------------------------------------------------------------------------
\* Calls of RunAll/RunAllStream made at the same time by different goroutines:
\* the statements of each that touch the configuration (run_all.go:40-43),
\* interleaved. All of them work on the one package-level defaultOpts.

CallEnter(c, os) ==
    /\ calls[c].pc = "idle"
    /\ calls' = [calls EXCEPT ![c] = [pc |-> "setOpts", options |-> os,
                                      sem |-> NewWeighted(0)]]
    /\ UNCHANGED <<lib, glob, cli, defaultOpts, mode, tasks, options, pc, next, ctx,
                   sem, wg, results, resultChan, wpc, closer, received,
                   consumerDone, runCount, order>>

\* opts := setOpts(options...), and every gate already built takes the new value
CallSetOptsLive(c) ==
    /\ calls[c].pc = "setOpts"
    /\ defaultOpts' = setOpts(defaultOpts, calls[c].options)
    /\ calls' = [d \in Calls |->
                   IF d = c THEN [calls[d] EXCEPT !.pc = "make"]
                   ELSE IF calls[d].pc = "admitting"
                        THEN [calls[d] EXCEPT !.sem.size = defaultOpts'.maxConcurrency]
                   ELSE calls[d]]
    /\ UNCHANGED <<lib, glob, cli, mode, tasks, options, pc, next, ctx, sem, wg,
                   results, resultChan, wpc, closer, received, consumerDone,
                   runCount, order>>

\* opts := setOpts(options...)
CallSetOpts(c) ==
    /\ calls[c].pc = "setOpts"
    /\ defaultOpts' = setOpts(defaultOpts, calls[c].options)
    /\ calls' = [calls EXCEPT ![c].pc = "make"]
    /\ UNCHANGED <<lib, glob, cli, mode, tasks, options, pc, next, ctx, sem, wg,
                   results, resultChan, wpc, closer, received, consumerDone,
                   runCount, order>>

\* sem := semaphore.NewWeighted(opts.maxConcurrency): opts is defaultOpts; the
\* gate keeps a copy of the number. From here the call admits its tasks.
CallMake(c) ==
    /\ calls[c].pc = "make"
    /\ calls' = [calls EXCEPT ![c].pc = "admitting",
                              ![c].sem = NewWeighted(defaultOpts.maxConcurrency)]
    /\ UNCHANGED <<lib, glob, cli, defaultOpts, mode, tasks, options, pc, next, ctx,
                   sem, wg, results, resultChan, wpc, closer, received,
                   consumerDone, runCount, order>>

\* The call is over.
CallReturn(c) ==
    /\ calls[c].pc = "admitting"
    /\ calls' = [calls EXCEPT ![c] = NoCall]
    /\ UNCHANGED <<lib, glob, cli, defaultOpts, mode, tasks, options, pc, next, ctx,
                   sem, wg, results, resultChan, wpc, closer, received,
                   consumerDone, runCount, order>>

NextConcurrent ==
    \/ \E c \in Calls, os \in OptionSeqs : CallEnter(c, os)
    \/ \E c \in Calls : CallSetOpts(c)
    \/ \E c \in Calls : CallMake(c)
    \/ \E c \in Calls : CallReturn(c)

ConcurrentSpec == Init /\ [][NextConcurrent]_vars

----------------------------------------------------------------------------
\* C1: when RunAll returns, the result has exactly one outcome per task and
\* outcome i carries the metadata of task i and what task i's own Run produced
\* (its value and error, or its panic), whatever the order of completion.
C1_OrderPreserved ==
    Returned =>
        /\ Len(results) = N
        /\ \A i \in 1..N :
              /\ results[i].Metadata = tasks[i].Metadata
              /\ results[i].Result =
                    IF tasks[i].Run.panics
                    THEN [Value |-> 0, Err |-> <<"panic: ", tasks[i].Run.rec>>]
                    ELSE [Value |-> tasks[i].Run.v, Err |-> tasks[i].Run.err]

\* Two different tasks, the second of which published first.
C1_Witness ==
    /\ Returned
    /\ N = 2
    /\ tasks[1] # tasks[2]
    /\ order = <<2, 1>>

\* C2: the number of tasks inside Run never exceeds the ceiling the call
\* resolved (opts.maxConcurrency, the size of its semaphore); a task waits
\* only while every permit is taken.
C2_CeilingRespected ==
    pc \in {"spawn", "returned"} =>
        /\ sem.size = defaultOpts.maxConcurrency
        /\ Cardinality(Running) <= sem.size
        /\ sem.size >= 1 =>
              /\ \A w \in Workers : wpc[w] = "waiting" => sem.cur = sem.size
              /\ \A w \in Workers :
                    wpc[w] = "waiting" <=> \E k \in 1..Len(sem.waiters) : sem.waiters[k] = w

\* The ceiling is reached while another task waits for a slot.
C2_Witness ==
    /\ pc \in {"spawn", "returned"}
    /\ Cardinality(Running) = sem.size
    /\ sem.size >= 1
    /\ sem.waiters # <<>>

\* C3: not fail-fast. When a call that contains failing tasks is over, every
\* task's Run has been invoked, and every succeeding task has its own value
\* with a nil error: the outcome it has in a call where nothing fails.
C3_NotFailFast ==
    (Returned \/ Drained) /\ (\E k \in 1..N : Fails(tasks[k])) =>
        \A i \in 1..N :
            /\ runCount[i] = 1
            /\ Succeeds(tasks[i]) =>
                  /\ OutcomesOf(i) # {}
                  /\ \A k \in OutcomesOf(i) :
                        Published[k].exec =
                            [Metadata |-> tasks[i].Metadata,
                             Result |-> [Value |-> tasks[i].Run.v, Err |-> NilErr]]

\* A stream in which the first task panicked and published before the second,
\* succeeding one.
C3_Witness ==
    /\ Drained
    /\ N = 2
    /\ tasks[1].Run.panics
    /\ Succeeds(tasks[2])
    /\ order = <<1, 2>>

\* C4: with a ceiling of at least 1 and under fair scheduling the consumer of
\* RunAllStream's channel eventually sees it closed, and when it does it has
\* received exactly N outcomes, one per task, each with that task's metadata.
C4_StreamDelivers ==
    /\ [](consumerDone =>
            /\ resultChan.closed
            /\ Len(received) = N
            /\ \A i \in 1..N :
                  /\ Cardinality({ k \in 1..Len(received) : received[k].src = i }) = 1
                  /\ \A k \in 1..Len(received) :
                        received[k].src = i =>
                            received[k].exec.Metadata = tasks[i].Metadata)
    /\ (mode = "stream" /\ pc = "make" /\ defaultOpts.maxConcurrency >= 1)
          ~> consumerDone

\* A drained stream of two tasks that were delivered against the input order.
C4_Witness ==
    /\ Drained
    /\ N = 2
    /\ Len(received) = 2
    /\ received[1].src = 2
    /\ received[2].src = 1

\* C5: when RunAll has returned, every worker has published its outcome and
\* has finished, so nothing writes the returned slice any more.
C5_ReturnAfterAll ==
    Returned =>
        \A i \in 1..N :
            /\ wpc[i] = "done"
            /\ Cardinality({ k \in 1..Len(order) : order[k] = i }) = 1
            /\ results[i] # zeroTaskExecution

\* RunAll returned with a ceiling of 1 for two tasks, one of which panicked.
C5_Witness ==
    /\ Returned
    /\ N = 2
    /\ sem.size = 1
    /\ \E i \in 1..N : tasks[i].Run.panics
    /\ \E i \in 1..N : ~tasks[i].Run.panics

\* C6: under fair scheduling a RunAll whose ceiling is at least 1 returns,
\* whatever its tasks do (succeed, fail or panic) and however many they are.
C6_BatchReturns ==
    (mode = "batch" /\ pc = "make" /\ defaultOpts.maxConcurrency >= 1) ~> Returned

\* RunAll returned although every task panicked and the tasks outnumber the
\* ceiling.
C6_Witness ==
    /\ Returned
    /\ N > sem.size
    /\ sem.size >= 1
    /\ \A i \in 1..N : tasks[i].Run.panics

\* C7: a panic of Run never kills the process; the panicking task gets exactly
\* one outcome, with its own metadata, the zero value and the error
\* "panic: <value>", a tag that no outcome of a task that returned carries.
C7_PanicContained ==
    /\ pc # "crashed"
    /\ \A i \in 1..N :
          /\ Cardinality(OutcomesOf(i)) <= 1
          /\ (i \in Workers /\ Finished(i)) => Cardinality(OutcomesOf(i)) = 1
    /\ \A k \in 1..Len(Published) :
          LET o == Published[k].exec
              t == tasks[Published[k].src]
          IN  IF t.Run.panics
              THEN /\ o.Metadata = t.Metadata
                   /\ o.Result.Value = 0
                   /\ o.Result.Err # NilErr
                   /\ o.Result.Err = <<"panic: ", t.Run.rec>>
              ELSE o.Result.Err # NilErr => Head(o.Result.Err) # "panic: "

\* A worker of RunAll whose Run panicked has finished and its outcome is there.
C7_Witness ==
    /\ mode = "batch"
    /\ \E i \in Workers :
          /\ tasks[i].Run.panics
          /\ wpc[i] = "done"
          /\ results[i].Result.Err = <<"panic: ", "kaboom">>

\* C8: a task whose Run returned (v, nil) has the outcome (v, nil); a task
\* whose Run returned an error e has an outcome whose Err is e; both carry the
\* task's metadata.
C8_ReturnedOutcome ==
    \A k \in 1..Len(Published) :
        LET o == Published[k].exec
            t == tasks[Published[k].src]
        IN  ~t.Run.panics =>
                /\ o.Metadata = t.Metadata
                /\ t.Run.err = NilErr =>
                      o.Result.Value = t.Run.v /\ o.Result.Err = NilErr
                /\ t.Run.err # NilErr =>
                      o.Result.Err = t.Run.err /\ o.Result.Err # NilErr

\* Both kinds of returning task have published in one call.
C8_Witness ==
    /\ Len(Published) = 2
    /\ Succeeds(tasks[Published[1].src])
    /\ ~tasks[Published[2].src].Run.panics
    /\ tasks[Published[2].src].Run.err # NilErr

\* C9: an outcome whose Err is non-nil has the zero Value.
C9_ZeroValueOnFailure ==
    \A k \in 1..Len(Published) :
        Published[k].exec.Result.Err # NilErr =>
            Published[k].exec.Result.Value = zero

\* C10: within one call a task's Run is entered at most once and never by two
\* workers at a time; it has been entered exactly once as soon as the task's
\* worker is past it, and for every task once the call is over.
C10_RunOnce ==
    \A i \in 1..N :
        /\ runCount[i] <= 1
        /\ Cardinality({ w \in Running : TaskOf(w) = i }) <= 1
        /\ (wpc[i] = "running" \/ Finished(i)) /\ ~ctx.done => runCount[i] = 1
        /\ (Returned \/ Drained) /\ ~ctx.done => runCount[i] = 1

\* A call is over in which one Run returned an error and the other panicked.
C10_Witness ==
    /\ Returned \/ Drained
    /\ N = 2
    /\ tasks[1].Run.err # NilErr
    /\ tasks[2].Run.panics
    /\ \A i \in 1..N : runCount[i] = 1

\* C11: the channel is closed by the closing goroutine alone, and only when
\* every worker has published and finished; so no worker sends on a closed
\* channel, it is not closed twice, and the consumer that has drained it finds
\* it closed and empty.
C11_ClosedOnceAfterAll ==
    /\ resultChan.closed <=> closer = "done"
    /\ resultChan.closed =>
          /\ \A w \in Workers : wpc[w] = "done"
          /\ Len(order) = N
          /\ Len(received) + Len(resultChan.buf) = N
    /\ consumerDone => resultChan.closed /\ resultChan.buf = <<>>

\* The channel of two tasks is closed while an outcome is still in the buffer.
C11_Witness ==
    /\ mode = "stream"
    /\ N = 2
    /\ resultChan.closed
    /\ Len(resultChan.buf) = 1
    /\ Len(received) = 1

\* C12: the consumer receives the outcomes in the order in which the workers
\* published them, whatever the positions of the tasks in the input.
C12_CompletionOrder ==
    mode = "stream" =>
        LET sent == received \o resultChan.buf
        IN  /\ Len(sent) = Len(order)
            /\ \A k \in 1..Len(sent) : sent[k].src = order[k]

\* The consumer has both outcomes, the second task's first, and has not yet
\* seen the channel closed.
C12_Witness ==
    /\ mode = "stream"
    /\ ~consumerDone
    /\ order = <<2, 1>>
    /\ Len(received) = 2
    /\ received[1].src = 2

\* C13: RunAllStream returns as soon as its loop is over, whatever its workers
\* are doing, and the consumer can take an outcome as soon as it is in the
\* channel, whatever the other workers are doing.
C13_StreamNoWait ==
    mode = "stream" =>
        /\ (pc = "spawn" /\ next > N) => ENABLED StartCloserAndReturn
        /\ \A w \in Workers :
              Finished(w) => \E k \in 1..Len(Published) : Published[k].src = TaskOf(w)
        /\ (pc = "returned" /\ resultChan.buf # <<>>) => ENABLED Receive

\* RunAllStream has returned and the consumer holds the outcome of one task
\* while the other task is still inside Run.
C13_Witness ==
    /\ mode = "stream"
    /\ pc = "returned"
    /\ Len(received) = 1
    /\ \E w \in Workers : wpc[w] = "running"

\* C14: a call that is given no option resolves the default ceiling.
C14_DefaultCeiling ==
    (pc = "setOpts" /\ options = <<>>) =>
        setOpts(defaultOpts, options).maxConcurrency = defaultMaxConcurrency

\* C15: a call with a ceiling of 0 or less starts no worker.
C15_MalformedLimitRejected ==
    (pc \in {"spawn", "returned"} /\ sem.size <= 0) =>
        \A w \in Workers : wpc[w] = "none"

\* The workers that hold a permit of the semaphore.
Holders == { w \in Workers : wpc[w] \in {"granted", "acquired", "running", "published"} }

\* The outcome a worker publishes when its Acquire failed.
IsAdmissionFailure(o, task) ==
    o = [Metadata |-> task.Metadata,
         Result |-> [Value |-> 0,
                     Err |-> <<"semaphore acquire failed: ", "context canceled">>]]

\* C16: a task whose slot acquisition failed has exactly one outcome, with its
\* own metadata, the zero value and the admission failure; its Run is never
\* invoked, its worker holds and releases no permit, and the call still
\* completes (RunAll returns, the stream is closed and drained).
C16_AdmissionFailure ==
    /\ [](\A i \in Workers :
             /\ (Finished(i) /\ runCount[i] = 0) =>
                   /\ Cardinality(OutcomesOf(i)) = 1
                   /\ \A k \in OutcomesOf(i) :
                         IsAdmissionFailure(Published[k].exec, tasks[i])
             /\ \A k \in OutcomesOf(i) :
                   IsAdmissionFailure(Published[k].exec, tasks[i]) => runCount[i] = 0)
    /\ [](pc \in {"spawn", "returned"} => sem.cur = Cardinality(Holders))
    /\ (pc = "spawn" /\ (ctx.done \/ sem.size >= 1)) ~> (Returned \/ Drained)

\* RunAll returned after the admission of one task failed while the other task
\* had been admitted and ran.
C16_Witness ==
    /\ Returned
    /\ N = 2
    /\ \E i, j \in Workers : runCount[i] = 0 /\ runCount[j] = 1
    /\ \E i \in Workers : IsAdmissionFailure(results[i], tasks[i])

\* C17: with no task, RunAll returns the empty result and RunAllStream's
\* channel delivers nothing and is closed; neither waits for anything (the
\* caller's next step is enabled as soon as the loop over the tasks is over,
\* and the consumer sees the channel closed), whatever the ceiling.
C17_EmptyInput ==
    /\ []((Returned /\ N = 0) => results = <<>>)
    /\ []((mode = "stream" /\ N = 0 /\ pc \in {"spawn", "returned"}) =>
              /\ resultChan.buf = <<>>
              /\ received = <<>>
              /\ resultChan.cap = 0)
    /\ []((pc = "spawn" /\ N = 0) =>
              IF mode = "batch" THEN ENABLED WaitAndReturn
              ELSE ENABLED StartCloserAndReturn)
    /\ []((mode = "stream" /\ N = 0 /\ closer = "wait") => ENABLED Close)
    /\ (pc = "make" /\ N = 0) ~> (Returned \/ Drained)

\* The consumer of an empty stream has seen the channel closed, under a ceiling
\* of zero.
C17_Witness ==
    /\ Drained
    /\ N = 0
    /\ sem.size = 0
    /\ received = <<>>

\* C18: whether or not the consumer of RunAllStream keeps reading, a worker
\* never waits for the consumer (there is room in the channel for its outcome
\* whenever it has one to send), and every task is admitted, runs its Run once
\* and publishes its outcome, after which the channel is closed; what the
\* consumer has not read stays in the channel.
C18_AbandonedStream ==
    /\ []((mode = "stream" /\ pc \in {"spawn", "returned"}) =>
              /\ Len(resultChan.buf) + Cardinality({w \in Workers : ~Finished(w)})
                     <= resultChan.cap
              /\ \A w \in Workers : wpc[w] = "running" => ENABLED RunFinish(w))
    /\ (mode = "stream" /\ pc = "spawn" /\ sem.size >= 1) ~>
           (/\ mode = "stream"
            /\ resultChan.closed
            /\ \A w \in Workers : wpc[w] = "done" /\ runCount[w] = 1
            /\ \A i \in Workers : Cardinality(OutcomesOf(i)) = 1)

\* The channel of a stream of two tasks is closed and nothing was ever read.
C18_Witness ==
    /\ mode = "stream"
    /\ N = 2
    /\ resultChan.closed
    /\ received = <<>>
    /\ Len(resultChan.buf) = 2
    /\ ~consumerDone

\* the paths Glob and GlobStream are to process: those the pattern matches
\* that the ignore rules in force do not exclude, in matched order
Expected ==
    SelectSeq(FilepathGlob(glob.pattern).matched,
              LAMBDA q : glob.ignore.nil \/ q \notin glob.ignore.ignored)

\* the outcome of the file at path
FileOutcome(path) ==
    [Metadata |-> path,
     Result |-> IF path = "ok.md" THEN [Value |-> 1, Err |-> NilErr]
                ELSE IF path = "sub/ok2.md" THEN [Value |-> 2, Err |-> NilErr]
                ELSE IF path = "bad.md" THEN [Value |-> 0, Err |-> ErrFrontMatter]
                ELSE [Value |-> 0, Err |-> ErrNotExist]]

\* C19: Glob and GlobStream return an error exactly when the pattern is bad
\* or the ignore rules cannot be resolved, and then no task exists and no file
\* is processed; otherwise the error is nil, there is one task per matched,
\* non-ignored path, Glob returns their outcomes in matched order, GlobStream
\* delivers each exactly once, and a file's failure is in its outcome's Err.
C19_GlobErrors ==
    glob.called =>
        /\ glob.err # NilErr <=>
              (FilepathGlob(glob.pattern).err # NilErr \/ glob.ignore.err # NilErr)
        /\ glob.err # NilErr <=> pc = "globFailed"
        /\ glob.err # NilErr => (mode = "none" /\ N = 0 /\ results = <<>>)
        /\ glob.err = NilErr =>
              /\ N = Len(Expected)
              /\ \A i \in Workers : tasks[i].Metadata = Expected[i]
              /\ Returned => results = [i \in 1..N |-> FileOutcome(Expected[i])]
              /\ Drained =>
                    /\ Len(received) = N
                    /\ \A i \in Workers :
                          \E k \in 1..N :
                              /\ received[k].exec = FileOutcome(Expected[i])
                              /\ \A j \in 1..N :
                                    received[j].exec.Metadata = Expected[i] => j = k

\* Glob has returned a nil error and the outcomes of two files, both failed.
C19_Witness ==
    /\ glob.called
    /\ Returned
    /\ glob.err = NilErr
    /\ N = 2
    /\ \A i \in Workers : results[i].Result.Err # NilErr

\* C20: when the CLI's Run has returned after Glob succeeded, it has returned
\* nil only if no task's outcome carried a failure.
C20_FailureSignalled ==
    (cli.active /\ cli.returned /\ glob.err = NilErr) =>
        ((\E i \in 1..N : results[i].Result.Err # NilErr) => cli.err # NilErr)

\* the outcomes the CLI's loop has been through
Seen == SubSeq(results, 1, IF cli.returned /\ cli.wtrErr = EPIPE /\ cli.k <= N
                           THEN cli.k ELSE cli.k - 1)

\* the paths of the outcomes of a sequence that succeeded, in its order
SucceededPaths(execs) ==
    LET ok == SelectSeq(execs, LAMBDA e : e.Result.Err = NilErr)
    IN  [j \in 1..Len(ok) |-> ok[j].Metadata]

\* the reports of the outcomes of a sequence that failed, in its order
FailureReports(execs) ==
    LET ko == SelectSeq(execs, LAMBDA e : e.Result.Err # NilErr)
    IN  [j \in 1..Len(ko) |-> <<"error processing", ko[j].Metadata>>]

\* a write to the output has failed (encoding or flushing a record)
OutputFailed ==
    \/ cli.wtrErr # NilErr
    \/ \E j \in 1..Len(cli.stderr) : cli.stderr[j][1] # "error processing"

C22_IgnoredNeverProcessed ==
    /\ \A p \in Patterns, gi \in GitIgnoreResults :
          LET g == FilepathGlob(p)
              r == runGlob(p, gi)
              kept == { k \in 1..Len(g.matched) : gi.nil \/ g.matched[k] \notin gi.ignored }
          IN  (g.err = NilErr /\ gi.err = NilErr) =>
                 /\ r.err = NilErr
                 /\ gi.nil => r.matched = g.matched
                 /\ Len(r.matched) = Cardinality(kept)
                 /\ \A k \in kept :
                       r.matched[Cardinality({j \in kept : j <= k})] = g.matched[k]
    /\ (glob.called /\ glob.err = NilErr /\ ~glob.ignore.nil) =>
          /\ \A i \in Workers : tasks[i].Metadata \notin glob.ignore.ignored
          /\ \A k \in 1..Len(Published) :
                Published[k].exec.Metadata \notin glob.ignore.ignored
          /\ Returned => \A i \in 1..Len(results) :
                            results[i].Metadata \notin glob.ignore.ignored

\* Glob has returned the outcome of the one file of two matched that the rules
\* in force do not ignore.
C22_Witness ==
    /\ glob.called
    /\ Returned
    /\ glob.pattern = "*.md"
    /\ glob.ignore.ignored = {"ok.md"}
    /\ N = 1
    /\ results[1].Metadata = "bad.md"

\* C23: the permits held are exactly those of the workers between their
\* admission and their release, so a worker gives its permit back exactly once
\* whether its Run returned a value, returned an error or panicked, and one
\* whose acquisition failed gives back none; the permits held stay between 0
\* and the ceiling and are 0 once every worker of the call is done.
C23_SlotsReleased ==
    pc \in {"spawn", "returned"} =>
        /\ sem.cur = Cardinality(Holders)
        /\ sem.cur >= 0
        /\ sem.cur <= sem.size
        /\ \A w \in Workers :
              /\ wpc[w] \in {"exiting", "done"} => w \notin Holders
              /\ w \in Holders => runCount[w] <= 1
              /\ (wpc[w] \in {"exiting", "done"} /\ runCount[w] = 0) =>
                    \A k \in OutcomesOf(w) :
                        IsAdmissionFailure(Published[k].exec, tasks[w])
        /\ (\A w \in Workers : wpc[w] = "done") => sem.cur = 0

\* RunAll has returned, no permit is held: one task panicked under its permit,
\* the acquisition of the other failed.
C23_Witness ==
    /\ Returned
    /\ N = 2
    /\ sem.cur = 0
    /\ \A w \in Workers : wpc[w] = "done"
    /\ \E i, j \in Workers :
          /\ runCount[i] = 1
          /\ tasks[i].Run.panics
          /\ runCount[j] = 0

\* C24: with a context that is never done no acquisition fails, and under
\* fair scheduling every task that waits for a slot is eventually admitted and
\* its Run entered.
C24_EventuallyAdmitted ==
    /\ [](\A i \in Workers : \A k \in OutcomesOf(i) :
             ~IsAdmissionFailure(Published[k].exec, tasks[i]))
    /\ \A w \in 1..MaxTasks :
          (w \in Workers /\ wpc[w] \in {"waiting", "doomed"})
              ~> (w \in Workers /\ runCount[w] = 1)

\* C25: the gate of a call that asked for a ceiling has that many permits,
\* whatever the calls made at the same time asked for.
C25_OwnCeiling ==
    \A c \in Calls :
        (calls[c].pc = "admitting" /\ calls[c].options # <<>>) =>
            calls[c].sem.size = calls[c].options[1]

\* C26: while a call admits its tasks the number of permits of its gate does
\* not change, whatever options this or another call applies meanwhile.
C26_CeilingFixed ==
    [][\A c \in Calls :
          (calls[c].pc = "admitting" /\ calls'[c].pc = "admitting") =>
              calls'[c].sem.size = calls[c].sem.size]_vars

\* A call admits its tasks under a ceiling that a concurrent call's option
\* has since replaced in defaultOpts.
C26_Witness ==
    \E c, d \in Calls :
        /\ calls[c].pc = "admitting"
        /\ calls[d].pc \in {"make", "admitting"}
        /\ calls[d].options # <<>>
        /\ defaultOpts.maxConcurrency = calls[d].options[1]
        /\ calls[c].sem.size # defaultOpts.maxConcurrency

\* C29: a worker has published its outcome before it gives its permit back,
\* and has given it back before it is counted as done; so when a queued task is
\* granted a permit, the worker whose release granted it has published
\* already, and the caller's return and the channel's close come after every
\* publication and every release.
C29_PublishReleaseDone ==
    /\ [](\A w \in Workers :
             wpc[w] \in {"exiting", "done"} =>
                 /\ OutcomesOf(TaskOf(w)) # {}
                 /\ w \notin Holders)
    /\ [](pc \in {"spawn", "returned"} =>
             /\ sem.cur = Cardinality(Holders)
             /\ wg = Cardinality({w \in Workers : wpc[w] \notin {"none", "done"}}))
    /\ [][\A v \in Workers :
             (wpc[v] = "waiting" /\ wpc'[v] = "granted") =>
                 \E a \in Workers :
                     /\ wpc[a] = "published"
                     /\ wpc'[a] = "exiting"
                     /\ OutcomesOf(TaskOf(a)) # {}]_vars
    /\ []((Returned \/ (mode = "stream" /\ resultChan.closed)) =>
             /\ Len(Published) = N
             /\ sem.cur = 0)

\* Under a ceiling of one the second task has been granted the permit that the
\* first gave back after publishing its outcome.
C29_Witness ==
    /\ N = 2
    /\ sem.size = 1
    /\ wpc[1] = "exiting"
    /\ wpc[2] = "granted"
    /\ Len(Published) = 1
    /\ Published[1].src = 1

\* C27: in RunAll a position of the results is written once, by the worker of
\* the task of that index and by no other, while the caller is still waiting;
\* the caller has the results only when every worker is done, and nothing is
\* written after that.
C27_OwnPosition ==
    /\ []((mode = "batch" /\ pc \in {"spawn", "returned"}) =>
             /\ Len(results) = N
             /\ \A k, l \in 1..Len(order) : order[k] = order[l] => k = l
             /\ \A i \in Workers :
                   (\A k \in 1..Len(order) : order[k] # i) =>
                       results[i] = zeroTaskExecution
             /\ Returned => /\ \A w \in Workers : wpc[w] = "done"
                            /\ Len(order) = N)
    /\ [][(mode = "batch" /\ pc = pc' /\ results' # results) =>
             /\ pc = "spawn"
             /\ \E w \in Workers :
                   /\ wpc[w] = "running"
                   /\ wpc'[w] = "published"
                   /\ order' = Append(order, TaskOf(w))
                   /\ results[TaskOf(w)] = zeroTaskExecution
                   /\ results'[TaskOf(w)].Metadata = tasks[TaskOf(w)].Metadata
                   /\ \A j \in Workers : j # TaskOf(w) => results'[j] = results[j]]_vars

\* The worker of the second task has written its position while the worker of
\* the first is still in its Run.
C27_Witness ==
    /\ mode = "batch"
    /\ pc = "spawn"
    /\ N = 2
    /\ order = <<2>>
    /\ wpc[1] = "running"
    /\ results[1] = zeroTaskExecution
    /\ results[2] # zeroTaskExecution

C30_NoCancellation ==
    /\ [](\A w \in Workers :
             tasks[w].Run.blocks =>
                 /\ ~Returned
                 /\ ~(mode = "stream" /\ (resultChan.closed \/ consumerDone))
                 /\ wpc[w] \notin {"published", "exiting", "done"}
                 /\ OutcomesOf(w) = {}
                 /\ wpc[w] = "running" => (w \in Holders /\ sem.cur >= 1))
    /\ [][\A w \in Workers :
             (tasks[w].Run.blocks /\ wpc[w] = "running") =>
                 /\ wpc'[w] = "running"
                 /\ sem'.cur >= 1]_vars
    /\ \A i \in 1..MaxTasks :
          (mode = "stream" /\ i \in Workers /\ Finished(i))
              ~> (\E k \in 1..Len(received) : received[k].src = i)

\* RunAllStream has returned; one task is in a Run that never returns, the
\* outcome of the other has been received, the closer waits.
C30_Witness ==
    /\ mode = "stream"
    /\ pc = "returned"
    /\ N = 2
    /\ \E w \in Workers : tasks[w].Run.blocks /\ wpc[w] = "running"
    /\ Len(received) = 1
    /\ closer = "wait"
    /\ ~resultChan.closed

\* exactly one of Err and Value is non-nil
OneOfErrAndValue(exec) == exec.Result.Err = NilErr <=> exec.Result.Value # zero

\* C31: every outcome of a task of Glob or GlobStream, whether its Run
\* returned, panicked or was never admitted, has exactly one of Err and Value
\* non-nil, so the CLI, which reads the document only of an outcome without an
\* error, never reads a nil one.
C31_ErrOrValue ==
    /\ \A p \in Patterns, gi \in GitIgnoreResults :
          LET r == runGlob(p, gi)
          IN  \A k \in 1..Len(r.matched) :
                 LET task == GlobTask(r.matched[k])
                 IN  /\ OneOfErrAndValue(ReturnedOutcome(task))
                     /\ OneOfErrAndValue(PanicOutcome(task, "kaboom"))
                     /\ OneOfErrAndValue(AcquireFailedOutcome(task, ctxErr))
    /\ glob.called =>
          /\ \A k \in 1..Len(Published) : OneOfErrAndValue(Published[k].exec)
          /\ Returned => \A i \in 1..N : OneOfErrAndValue(results[i])
    /\ cli.active => cli.err # NilDereference

\* The consumer of GlobStream has received the outcomes of two files: one with
\* an error and no document, one with a document and no error.
C31_Witness ==
    /\ glob.called
    /\ Drained
    /\ Len(received) = 2
    /\ \E k \in 1..2 : received[k].exec.Result.Err # NilErr
                       /\ received[k].exec.Result.Value = zero
    /\ \E k \in 1..2 : received[k].exec.Result.Err = NilErr
                       /\ received[k].exec.Result.Value # zero

\* the loop is at an outcome without an error and the writer is sound
AtRecord ==
    /\ cli.active
    /\ ~cli.returned
    /\ Returned
    /\ cli.k <= N
    /\ results[cli.k].Result.Err = NilErr
    /\ cli.wtrErr = NilErr

\* C32: a flush that fails with a broken pipe ends Run at once with nil: the
\* remaining outcomes are neither emitted nor reported, and nothing is written
\* to the diagnostic stream; a flush that fails otherwise is reported, marks
\* the run as failed, and the loop goes on with the next outcome, so that Run
\* returns an error in the end.
C32_BrokenPipe ==
    /\ [](AtRecord =>
             LET broken == Iterate(cli, results[cli.k], NilErr, EPIPE)
                 short == Iterate(cli, results[cli.k], NilErr, ErrShortWrite)
             IN  /\ broken.returned
                 /\ broken.err = NilErr
                 /\ broken.k = cli.k
                 /\ broken.stdout = cli.stdout
                 /\ broken.stderr = cli.stderr
                 /\ DeferredFlush(broken) = cli.stderr
                 /\ ~short.returned
                 /\ short.hasErrors
                 /\ short.k = cli.k + 1
                 /\ short.stdout = cli.stdout
                 /\ short.stderr =
                       Append(cli.stderr,
                              <<"error flushing output for", results[cli.k].Metadata>>))
    /\ [][(cli.active /\ cli.returned) => (cli' = cli \/ cli' = NoCLI)]_vars
    /\ []((cli.active /\ cli.returned /\ glob.err = NilErr) =>
             /\ (cli.wtrErr = EPIPE /\ cli.k <= N) => cli.err = NilErr
             /\ (\E j \in 1..Len(cli.stderr) :
                    cli.stderr[j][1] = "error flushing output for") =>
                   /\ cli.err # NilErr
                   /\ cli.k = N + 1)

\* Run has returned nil on a broken pipe at the first of two records: the
\* second outcome was never looked at.
C32_Witness ==
    /\ cli.active
    /\ cli.returned
    /\ cli.err = NilErr
    /\ cli.wtrErr = EPIPE
    /\ N = 2
    /\ cli.k = 1
    /\ cli.stdout = <<>>
    /\ cli.stderr = <<>>
    /\ results[2].Result.Err = NilErr

----------------------------------------------------------------------------
\* internal/markdown: ParseMarkdownWithMetadata.

MaxLines == 4

\* A file's content is its lines; the last one is the line that ends at EOF.
\* The lines a file is made of: the YAML delimiter, a title, a version that is
\* not a number, a title whose quote is not closed, text, and the empty line.
Lines == {"---", "title: Original Title", "version: x", "title: 'Unclosed quote",
          "Content", ""}

MetadataLines == {"title: Original Title", "version: x", "title: 'Unclosed quote"}

\* The contents handed to the parser; no key is written twice.
Contents ==
    { c \in UNION { [1..n -> Lines] : n \in 0..MaxLines } :
         \A i, j \in 1..Len(c) : (i < j /\ c[i] \in MetadataLines) => c[i] # c[j] }

\* new(T) for the metadata type of the tests
newT == [Title |-> "", Description |-> "", Version |-> 0]

zeroParsedMarkdown == [FrontMatter |-> newT, Content |-> <<>>]

ErrYAMLSyntax == <<"yaml: found unexpected end of stream">>

ErrYAMLType == <<"yaml: unmarshal errors: cannot unmarshal !!str into int">>

\* The YAML decoder on the lines between the delimiters, writing into fm. What
\* does not scan as a mapping fails before anything is decoded; a value of the
\* wrong type fails after the other fields have been written.
yamlUnmarshal(block, fm) ==
    IF \E k \in 1..Len(block) : block[k] \in {"title: 'Unclosed quote", "Content"}
    THEN [fm |-> fm, err |-> ErrYAMLSyntax]
    ELSE LET decoded == IF \E k \in 1..Len(block) : block[k] = "title: Original Title"
                        THEN [fm EXCEPT !.Title = "Original Title"]
                        ELSE fm
         IN  IF \E k \in 1..Len(block) : block[k] = "version: x"
             THEN [fm |-> decoded, err |-> ErrYAMLType]
             ELSE [fm |-> decoded, err |-> NilErr]

\* frontmatter: the line that opens the front matter, 0 when there is none.
\* Empty lines are skipped; a line that ends at EOF opens nothing.
RECURSIVE detect(_, _)
detect(content, i) ==
    IF i >= Len(content) THEN 0
    ELSE IF content[i] = "" THEN detect(content, i + 1)
    ELSE IF content[i] = "---" THEN i
    ELSE 0

\* frontmatter: the line that closes the front matter opened before line j,
\* 0 when EOF comes first.
RECURSIVE extract(_, _)
extract(content, j) ==
    IF content[j] = "---" THEN j
    ELSE IF j >= Len(content) THEN 0
    ELSE extract(content, j + 1)

\* frontmatter.Parse(reader, fm): without a front matter the whole input is
\* the rest and fm is not touched; with one, it is decoded into fm and the
\* rest is what follows the closing delimiter; a decoding error comes with no
\* rest.
frontmatterParse(content, fm) ==
    LET start == detect(content, 1)
        end == IF start = 0 THEN 0 ELSE extract(content, start + 1)
    IN  IF end = 0
        THEN [rest |-> content, fm |-> fm, err |-> NilErr]
        ELSE LET u == yamlUnmarshal(SubSeq(content, start + 1, end - 1), fm)
             IN  IF u.err # NilErr
                 THEN [rest |-> <<>>, fm |-> u.fm, err |-> u.err]
                 ELSE [rest |-> SubSeq(content, end + 1, Len(content)), fm |-> u.fm,
                       err |-> NilErr]

\* returning what the decoder left in fm instead of ParsedMarkdown[T]{}
ParseMarkdownWithMetadataPartial(content) ==
    LET r == frontmatterParse(content, newT)
    IN  [res |-> [FrontMatter |-> r.fm, Content |-> r.rest], err |-> r.err]

\* decoding into what the caller holds of the earlier result instead of new(T)
ParseMarkdownWithMetadataSharedFM(content) ==
    LET r == frontmatterParse(content,
                              IF lib.pc = "ready" THEN newT ELSE lib.first.res.FrontMatter)
    IN  IF r.err # NilErr
        THEN [res |-> zeroParsedMarkdown, err |-> r.err]
        ELSE [res |-> [FrontMatter |-> r.fm, Content |-> r.rest], err |-> NilErr]

ParseMarkdownWithMetadata(content) ==
    LET r == frontmatterParse(content, newT)
    IN  IF r.err # NilErr
        THEN [res |-> zeroParsedMarkdown, err |-> r.err]
        ELSE [res |-> [FrontMatter |-> r.fm, Content |-> r.rest], err |-> NilErr]

----------------------------------------------------------------------------
\* internal/markdown: ExtractH1Heading.

\* The lines of a Markdown text: two level-1 headings (one of them with strong
\* and plain emphasis), a level-2 heading, text, a line of white space, and
\* the line that is a thematic break or underlines a Setext heading.
MarkdownLines == {"# First Heading", "# Heading with **bold** and *italic*",
                  "## This is h2", "Content here.", "   ", "---"}

MarkdownTexts == UNION { [1..n -> MarkdownLines] : n \in 0..MaxLines }

\* goldmark's ast nodes
Node(kind, level, value, children) ==
    [kind |-> kind, Level |-> level, value |-> value, children |-> children]

Text(value) == Node("Text", 0, value, <<>>)

Emphasis(level, children) == Node("Emphasis", level, "", children)

Heading(level, children) == Node("Heading", level, "", children)

Paragraph(children) == Node("Paragraph", 0, "", children)

ThematicBreak == Node("ThematicBreak", 0, "", <<>>)

Document(children) == Node("Document", 0, "", children)

NoNode == Node("none", 0, "", <<>>)

\* the level of the ATX heading a line opens, 0 for any other line
atxLevel(line) ==
    IF line \in {"# First Heading", "# Heading with **bold** and *italic*"} THEN 1
    ELSE IF line = "## This is h2" THEN 2
    ELSE 0

\* goldmark's inline parser on the text of a line
parseInlines(line) ==
    IF line = "# First Heading" THEN <<Text("First Heading")>>
    ELSE IF line = "# Heading with **bold** and *italic*"
         THEN <<Text("Heading with "), Emphasis(2, <<Text("bold")>>), Text(" and "),
                Emphasis(1, <<Text("italic")>>)>>
    ELSE IF line = "## This is h2" THEN <<Text("This is h2")>>
    ELSE <<Text(line)>>

closeParagraph(blocks, para) ==
    IF para = <<>> THEN blocks ELSE Append(blocks, Paragraph(para))

\* goldmark's block parser, line by line: para holds the inlines of the open
\* paragraph. An ATX heading, a blank line and the end of the text close the
\* paragraph; "---" turns an open paragraph into a level-2 Setext heading and
\* is a thematic break otherwise.
RECURSIVE parseBlocks(_, _, _, _)
parseBlocks(lines, i, blocks, para) ==
    IF i > Len(lines) THEN closeParagraph(blocks, para)
    ELSE IF lines[i] = "   "
         THEN parseBlocks(lines, i + 1, closeParagraph(blocks, para), <<>>)
    ELSE IF atxLevel(lines[i]) > 0
         THEN parseBlocks(lines, i + 1,
                          Append(closeParagraph(blocks, para),
                                 Heading(atxLevel(lines[i]), parseInlines(lines[i]))),
                          <<>>)
    ELSE IF lines[i] = "---"
         THEN parseBlocks(lines, i + 1,
                          IF para = <<>> THEN Append(blocks, ThematicBreak)
                          ELSE Append(blocks, Heading(2, para)),
                          <<>>)
    ELSE parseBlocks(lines, i + 1, blocks, para \o parseInlines(lines[i]))

\* md.Parser().Parse(reader)
Parse(content) == Document(parseBlocks(content, 1, <<>>, <<>>))

\* extractTextFromNode: the values of the Text nodes below the nodes, in
\* document order
RECURSIVE textOf(_)
textOf(nodes) ==
    IF nodes = <<>> THEN ""
    ELSE (IF Head(nodes).kind = "Text" THEN Head(nodes).value ELSE "")
            \o textOf(Head(nodes).children) \o textOf(Tail(nodes))

extractTextFromNode(node) == textOf(<<node>>)

\* the walk without ast.WalkStop: every level-1 heading overwrites h1Text
RECURSIVE walkToEnd(_)
walkToEnd(nodes) ==
    IF nodes = <<>> THEN NoNode
    ELSE LET later == walkToEnd(Tail(nodes))
             inner == walkToEnd(Head(nodes).children)
         IN  IF later # NoNode THEN later
             ELSE IF inner # NoNode THEN inner
             ELSE IF Head(nodes).kind = "Heading" /\ Head(nodes).Level = 1 THEN Head(nodes)
             ELSE NoNode

\* ast.Walk with the callback of ExtractH1Heading: the first level-1 heading
\* entered, in document order, stops the walk.
RECURSIVE walk(_)
walk(nodes) ==
    IF nodes = <<>> THEN NoNode
    ELSE IF Head(nodes).kind = "Heading" /\ Head(nodes).Level = 1 THEN Head(nodes)
    ELSE LET inner == walk(Head(nodes).children)
         IN  IF inner # NoNode THEN inner ELSE walk(Tail(nodes))

ExtractH1HeadingNoStop(content) ==
    LET heading == walkToEnd(<<Parse(content)>>)
    IN  IF heading = NoNode THEN "" ELSE extractTextFromNode(heading)

\* The callback never returns an error, so neither walk does.
ExtractH1Heading(content) ==
    LET heading == walk(<<Parse(content)>>)
    IN  IF heading = NoNode THEN "" ELSE extractTextFromNode(heading)

----------------------------------------------------------------------------
\* internal/gitignore: the path of the global excludes file.

ErrKeyNotFound == <<"the key core.excludesFile is not found">>

ErrGitExec == <<"exec: git: executable file not found in $PATH">>

ErrHomeNotDefined == <<"$HOME is not defined">>

\* gitconfig.IsNotFound(err)
IsNotFound(err) == err = ErrKeyNotFound

\* What gitconfig.Get("core.excludesFile") answers: the key is not set, it is
\* set, it is set to nothing, git cannot be run.
GitConfigResults ==
    { [val |-> "", err |-> ErrKeyNotFound],
      [val |-> "~/.gitignore_global", err |-> NilErr],
      [val |-> "", err |-> NilErr],
      [val |-> "", err |-> ErrGitExec] }

\* os.Getenv("XDG_CONFIG_HOME")
XDGConfigHomes == {"", "/xdg"}

\* os.UserHomeDir(): the directory, or an error when $HOME is empty
UserHomeDirs == { [dir |-> "/home/u", err |-> NilErr], [dir |-> "", err |-> ErrHomeNotDefined] }

Environments ==
    [gitconfig : GitConfigResults, xdgConfigHome : XDGConfigHomes, home : UserHomeDirs]

\* filepath.Join: the non-empty elements, separated by "/"
RECURSIVE Join(_)
Join(elem) ==
    IF elem = <<>> THEN ""
    ELSE IF Head(elem) = "" THEN Join(Tail(elem))
    ELSE IF Join(Tail(elem)) = "" THEN Head(elem)
    ELSE Head(elem) \o "/" \o Join(Tail(elem))

getDefaultExcludesFilePath(env) ==
    IF env.xdgConfigHome # ""
    THEN [path |-> Join(<<env.xdgConfigHome, "git", "ignore">>), err |-> NilErr]
    ELSE IF env.home.err # NilErr THEN [path |-> "", err |-> env.home.err]
    ELSE IF env.home.dir = ""
         THEN [path |-> "",
               err |-> ErrorsNew("cannot determine user home directory to find default gitignore file")]
    ELSE [path |-> Join(<<env.home.dir, ".config", "git", "ignore">>), err |-> NilErr]

\* falling back to the default path whatever error the lookup ends with
getGlobalGitIgnorePathAnyError(env) ==
    IF env.gitconfig.val # "" THEN [path |-> env.gitconfig.val, err |-> NilErr]
    ELSE getDefaultExcludesFilePath(env)

getGlobalGitIgnorePath(env) ==
    IF env.gitconfig.err # NilErr /\ ~IsNotFound(env.gitconfig.err)
    THEN [path |-> "", err |-> env.gitconfig.err]
    ELSE IF env.gitconfig.val # "" THEN [path |-> env.gitconfig.val, err |-> NilErr]
    ELSE getDefaultExcludesFilePath(env)

----------------------------------------------------------------------------
\* The functions of the internal packages, called on their own.

LibCall(fn, arg) ==
    [fn |-> fn, pc |-> "ready", arg |-> arg, out |-> <<>>, first |-> <<>>, second |-> <<>>]

LibCalls ==
    { LibCall("ParseMarkdownWithMetadata", c) : c \in Contents }
        \cup { LibCall("ExtractH1Heading", c) : c \in MarkdownTexts }
        \cup { LibCall("getGlobalGitIgnorePath", env) : env \in Environments }

LibInit ==
    /\ lib \in LibCalls
    /\ defaultOpts = [maxConcurrency |-> defaultMaxConcurrency]
    /\ mode = "none"
    /\ tasks = <<>>
    /\ options = <<>>
    /\ pc = "idle"
    /\ next = 1
    /\ ctx = Background
    /\ sem = NewWeighted(0)
    /\ wg = 0
    /\ results = <<>>
    /\ resultChan = NoChan
    /\ wpc = <<>>
    /\ closer = "none"
    /\ received = <<>>
    /\ consumerDone = FALSE
    /\ runCount = <<>>
    /\ order = <<>>
    /\ glob = NoGlob
    /\ cli = NoCLI
    /\ calls = [c \in Calls |-> NoCall]

\* result, err := ParseMarkdownWithMetadata(content)
CallParseMarkdownWithMetadata ==
    /\ lib.fn = "ParseMarkdownWithMetadata"
    /\ lib.pc = "ready"
    /\ lib' = [lib EXCEPT !.pc = "returned",
                          !.out = ParseMarkdownWithMetadata(lib.arg),
                          !.first = ParseMarkdownWithMetadata(lib.arg)]
    /\ UNCHANGED <<calls, glob, cli, defaultOpts, mode, tasks, options, pc, next, ctx, sem, wg,
                   results, resultChan, wpc, closer, received, consumerDone, runCount,
                   order>>

\* result.FrontMatter.Title = "Modified Title"
MutateFrontMatter ==
    /\ lib.fn = "ParseMarkdownWithMetadata"
    /\ lib.pc = "returned"
    /\ lib.first.err = NilErr
    /\ lib' = [lib EXCEPT !.pc = "mutated",
                          !.first.res.FrontMatter.Title = "Modified Title"]
    /\ UNCHANGED <<calls, glob, cli, defaultOpts, mode, tasks, options, pc, next, ctx, sem, wg,
                   results, resultChan, wpc, closer, received, consumerDone, runCount,
                   order>>

\* secondResult, err := ParseMarkdownWithMetadata(content)
ParseAgain ==
    /\ lib.fn = "ParseMarkdownWithMetadata"
    /\ lib.pc \in {"returned", "mutated"}
    /\ lib' = [lib EXCEPT !.pc = "reparsed",
                          !.second = ParseMarkdownWithMetadata(lib.arg)]
    /\ UNCHANGED <<calls, glob, cli, defaultOpts, mode, tasks, options, pc, next, ctx, sem, wg,
                   results, resultChan, wpc, closer, received, consumerDone, runCount,
                   order>>

\* result := ExtractH1Heading(content)
CallExtractH1Heading ==
    /\ lib.fn = "ExtractH1Heading"
    /\ lib.pc = "ready"
    /\ lib' = [lib EXCEPT !.pc = "returned", !.out = ExtractH1Heading(lib.arg)]
    /\ UNCHANGED <<calls, glob, cli, defaultOpts, mode, tasks, options, pc, next, ctx, sem, wg,
                   results, resultChan, wpc, closer, received, consumerDone, runCount,
                   order>>

\* path, err := getGlobalGitIgnorePath()
CallGetGlobalGitIgnorePath ==
    /\ lib.fn = "getGlobalGitIgnorePath"
    /\ lib.pc = "ready"
    /\ lib' = [lib EXCEPT !.pc = "returned", !.out = getGlobalGitIgnorePath(lib.arg)]
    /\ UNCHANGED <<calls, glob, cli, defaultOpts, mode, tasks, options, pc, next, ctx, sem, wg,
                   results, resultChan, wpc, closer, received, consumerDone, runCount,
                   order>>

NextLib ==
    \/ CallParseMarkdownWithMetadata
    \/ MutateFrontMatter
    \/ ParseAgain
    \/ CallExtractH1Heading
    \/ CallGetGlobalGitIgnorePath

LibSpec == LibInit /\ [][NextLib]_vars

----------------------------------------------------------------------------
\* a call of fn has returned
LibReturned(fn) == lib.fn = fn /\ lib.pc # "ready"

\* the content has no front matter: no line of it is a delimiter
NoFrontMatter(content) == \A k \in 1..Len(content) : content[k] # "---"

H1Lines == {"# First Heading", "# Heading with **bold** and *italic*"}

\* the text of a level-1 heading line without its markers
PlainText(line) ==
    IF line = "# First Heading" THEN "First Heading" ELSE "Heading with bold and italic"

\* the first line that is a level-1 heading, 0 when there is none
FirstH1(content) ==
    IF \A k \in 1..Len(content) : content[k] \notin H1Lines THEN 0
    ELSE CHOOSE k \in 1..Len(content) :
            /\ content[k] \in H1Lines
            /\ \A j \in 1..(k - 1) : content[j] \notin H1Lines

\* C35: ExtractH1Heading returns the text of the first level-1 heading, the
\* text of its inline nodes concatenated without the formatting, whatever
\* headings of other levels and later level-1 headings there are; it returns
\* the empty string when there is no level-1 heading (empty and white-space
\* content included).
C35_FirstH1Text ==
    LibReturned("ExtractH1Heading") =>
       lib.out = IF FirstH1(lib.arg) = 0 THEN "" ELSE PlainText(lib.arg[FirstH1(lib.arg)])

\* A level-2 heading, then the level-1 heading with emphasis, then another
\* level-1 heading.
C35_Witness ==
    /\ LibReturned("ExtractH1Heading")
    /\ lib.arg = <<"## This is h2", "# Heading with **bold** and *italic*", "# First Heading">>
    /\ lib.out = "Heading with bold and italic"

\* C36: getGlobalGitIgnorePath returns the core.excludesFile value when it is
\* not empty; otherwise $XDG_CONFIG_HOME/git/ignore when XDG_CONFIG_HOME is
\* not empty; otherwise <home>/.config/git/ignore. It returns an error and no
\* path when the git-config lookup fails for another reason than not-found,
\* and when the home directory is needed and cannot be determined.
C36_Precedence ==
    LibReturned("getGlobalGitIgnorePath") =>
       LET env == lib.arg
           r == lib.out
       IN  IF env.gitconfig.err \notin {NilErr, ErrKeyNotFound}
           THEN r.err # NilErr /\ r.path = ""
           ELSE IF env.gitconfig.val # ""
                THEN r.err = NilErr /\ r.path = env.gitconfig.val
           ELSE IF env.xdgConfigHome # ""
                THEN r.err = NilErr /\ r.path = env.xdgConfigHome \o "/git/ignore"
           ELSE IF env.home.err = NilErr /\ env.home.dir # ""
                THEN r.err = NilErr /\ r.path = env.home.dir \o "/.config/git/ignore"
           ELSE r.err # NilErr /\ r.path = ""

\* Neither core.excludesFile nor XDG_CONFIG_HOME is set: the path is below the
\* home directory.
C36_Witness ==
    /\ LibReturned("getGlobalGitIgnorePath")
    /\ lib.arg.gitconfig.err = ErrKeyNotFound
    /\ lib.arg.xdgConfigHome = ""
    /\ lib.out = [path |-> "/home/u/.config/git/ignore", err |-> NilErr]

====
